---- MODULE Spec2Model ----
(***************************************************************************)
(* Model of the coordinate conversion engine of etrs89-conversor.         *)
(*                                                                         *)
(* The repository holds two implementations of convert_dataframe:         *)
(*   "pkg"  : src/src/etrs89_converter/converter.py (cached transformer,  *)
(*            zone-batched auto mode, failed groups dropped and counted), *)
(*   "root" : src/converter.py, the module tests/test_conversion.py       *)
(*            imports as `converter` (per-row auto mode).                  *)
(* Both are modelled; the variable impl says which one a call runs.        *)
(*                                                                         *)
(* Representation.                                                         *)
(*   - a cell is the text str(cell) as a tuple of one-character strings;  *)
(*   - a parsed float is <<n>>, n the value in units of 1/Scale, and the  *)
(*     not-a-number value is <<>>;                                         *)
(*   - a CRS code "EPSG:258dd" is <<"EPSG:258", d, d>>;                   *)
(*   - the projection library is opaque: a transform call either raises   *)
(*     ProjError or yields, per point, the symbolic value                  *)
(*     <<axis, crs, lon, lat>>.                                            *)
(***************************************************************************)
EXTENDS Integers, Sequences, FiniteSets, TLC

(* ------------------------------ bounds -------------------------------- *)

\* largest number of rows of an input table
MaxRows == 2

\* digits kept after the decimal point by the value representation
FracDigits == 1

\* largest number of convert_dataframe calls of one process
MaxCalls == 2

(* ------------------------- program constants -------------------------- *)

LatMin == -90
LatMax == 90
LonMin == -180
LonMax == 180
ZoneWidth == 6
ZoneLo == 29
ZoneHi == 31
ForcedZone == 31
RoundDefault == 3

RECURSIVE Pow10(_)
Pow10(k) == IF k = 0 THEN 1 ELSE 10 * Pow10(k - 1)

\* one degree in units of the value representation
Scale == Pow10(FracDigits)

NaN == << >>
Num(n) == << n >>
IsNaN(v) == v = NaN

(* --------------------------- numeric parser --------------------------- *)

Digits == {"0", "1", "2", "3", "4", "5", "6", "7", "8", "9"}

DigitVal(c) ==
  CASE c = "0" -> 0 [] c = "1" -> 1 [] c = "2" -> 2 [] c = "3" -> 3
    [] c = "4" -> 4 [] c = "5" -> 5 [] c = "6" -> 6 [] c = "7" -> 7
    [] c = "8" -> 8 [] c = "9" -> 9

\* series.str.replace(",", ".", regex=False): every comma becomes a period
ReplaceComma(s) == [i \in 1..Len(s) |-> IF s[i] = "," THEN "." ELSE s[i]]

RECURSIVE DigitsValue(_)
DigitsValue(s) ==
  IF s = << >> THEN 0
  ELSE 10 * DigitsValue(SubSeq(s, 1, Len(s) - 1)) + DigitVal(s[Len(s)])

AllDigits(s) == \A i \in 1..Len(s) : s[i] \in Digits

\* the fraction digits f as a number of 1/Scale units (inputs carry at most
\* FracDigits fraction digits)
FracValue(f) ==
  IF Len(f) >= FracDigits
  THEN DigitsValue(SubSeq(f, 1, FracDigits))
  ELSE DigitsValue(f) * Pow10(FracDigits - Len(f))

\* pd.to_numeric(text, errors="coerce") on one cell: [-]digits[.digits],
\* [-]digits. or [-].digits parse, everything else is coerced to NaN (the
\* texts of the model hold digits, "-", ".", "," and letters: no exponent,
\* blank or "inf")
ToNumeric(s) ==
  LET neg  == Len(s) > 0 /\ s[1] = "-"
      body == IF neg THEN Tail(s) ELSE s
      dots == {i \in 1..Len(body) : body[i] = "."}
  IN IF body = << >> THEN NaN
     ELSE IF dots = {}
     THEN IF AllDigits(body)
          THEN Num((IF neg THEN -1 ELSE 1) * DigitsValue(body) * Scale)
          ELSE NaN
     ELSE IF Cardinality(dots) > 1 THEN NaN
     ELSE LET d  == CHOOSE i \in dots : TRUE
              ip == SubSeq(body, 1, d - 1)
              fp == SubSeq(body, d + 1, Len(body))
          IN IF AllDigits(ip) /\ AllDigits(fp) /\ Len(ip) + Len(fp) > 0
             THEN Num((IF neg THEN -1 ELSE 1)
                      * (DigitsValue(ip) * Scale + FracValue(fp)))
             ELSE NaN

\* mutant: the decimal-comma flag is ignored
ToFloatCell_IgnoresFlag(cell, use_decimal_comma) == ToNumeric(cell)

\* to_float_series applied to one cell
ToFloatCell(cell, use_decimal_comma) ==
  ToNumeric(IF use_decimal_comma THEN ReplaceComma(cell) ELSE cell)

\* to_float_series
to_float_series(series, use_decimal_comma) ==
  [i \in 1..Len(series) |-> ToFloatCell(series[i], use_decimal_comma)]

\* mutant: the upper end is exclusive
Between_UpperExclusive(v, lo, hi) ==
  ~IsNaN(v) /\ lo * Scale <= v[1] /\ v[1] < hi * Scale

\* Series.between(lo, hi): inclusive on both ends, False for NaN
Between(v, lo, hi) == ~IsNaN(v) /\ lo * Scale <= v[1] /\ v[1] <= hi * Scale

\* valid = lat_s.between(-90, 90) & lon_s.between(-180, 180)
ValidMask(lat_s, lon_s) ==
  [i \in 1..Len(lat_s) |->
     Between(lat_s[i], LatMin, LatMax) /\ Between(lon_s[i], LonMin, LonMax)]

(* ----------------------- zones and CRS codes ------------------------- *)

Min(a, b) == IF a < b THEN a ELSE b
Max(a, b) == IF a > b THEN a ELSE b

\* mutant: the zone numbering starts at 0
RawZone_NoPlusOne(lon) == (lon[1] + 180 * Scale) \div (ZoneWidth * Scale)

\* ((lon + 180.0) // 6.0).astype(int) + 1 for one parsed longitude
RawZone(lon) == ((lon[1] + 180 * Scale) \div (ZoneWidth * Scale)) + 1

\* np.clip(z, 29, 31)
Clip(z) == Min(Max(z, ZoneLo), ZoneHi)

\* zones = np.clip(((lon_v + 180.0) // 6.0).astype(int) + 1, 29, 31)
ZonesOf(lon_v) == [i \in 1..Len(lon_v) |-> Clip(RawZone(lon_v[i]))]

\* f"EPSG:258{int(zone):02d}" for a zone of at most two digits
EpsgOf(zone) == << "EPSG:258", zone \div 10, zone % 10 >>

\* mutant: the literal names zone 30
EPSG25831_Typo == << "EPSG:258", 3, 0 >>

\* the literal "EPSG:25831"
EPSG25831 == << "EPSG:258", 3, 1 >>

\* np.unique(zones): the distinct zones in ascending order
RECURSIVE SortedSeq(_)
SortedSeq(S) ==
  IF S = {} THEN << >>
  ELSE LET m == CHOOSE x \in S : \A y \in S : x <= y
       IN << m >> \o SortedSeq(S \ {m})

Unique(zs) == SortedSeq({zs[i] : i \in 1..Len(zs)})

(* ------------------------- array helpers ------------------------------ *)

\* a[mask]: the elements of a whose mask entry is true, in order
RECURSIVE Pick(_, _)
Pick(a, mask) ==
  IF a = << >> THEN << >>
  ELSE LET n == Len(a)
           front == Pick(SubSeq(a, 1, n - 1), SubSeq(mask, 1, n - 1))
       IN IF mask[n] THEN Append(front, a[n]) ELSE front

Not(mask) == [i \in 1..Len(mask) |-> ~mask[i]]

CountTrue(mask) == Cardinality({i \in 1..Len(mask) : mask[i]})

Fill(n, v) == [i \in 1..n |-> v]

\* df[col] as a sequence of cells
Column(rows, col) == [i \in 1..Len(rows) |-> rows[i][col]]

(* -------------------- the opaque projection library ------------------- *)

\* one coordinate returned by transformer.transform for the point (lon, lat)
Projected(axis, epsg, lon, lat) == << axis, epsg, lon, lat >>

\* Series.round(decimals): NaN stays NaN
Round(v, decimals) == IF IsNaN(v) THEN NaN ELSE << "round", decimals, v >>

\* the ProjError raised while transforming into epsg
ProjErrorOf(epsg) == << "ProjError", epsg >>

\* what a handle look-up followed by a transform call can do
TransformOutcomes == {"ok", "handle_fails", "transform_fails"}

None == << >>

(* ------------------------------ inputs -------------------------------- *)

LatCol == "Lat"
LonCol == "Lon"
IdCol == "Id"

\* the (latitude, longitude) texts a row of an input table is drawn from
RowTexts ==
  { << <<"4","0">>,         <<"-","1","2">> >>,          \* zone 29, boundary
    << <<"4","0">>,         <<"-","6">> >>,              \* zone 30, boundary
    << <<"4","0",".","5">>, <<"0">> >>,                  \* zone 31, boundary
    << <<"9","0">>,         <<"-","1","8","0">> >>,      \* on the range bounds
    << <<"-","9","0">>,     <<"1","8","0">> >>,          \* on the range bounds
    << <<"9","0",".","1">>, <<"0">> >>,                  \* latitude too large
    << <<"-","9","0",".","1">>, <<"0">> >>,              \* latitude too small
    << <<"4","0">>,         <<"-","1","8","0",".","1">> >>,  \* longitude too small
    << <<"4","0">>,         <<"1","8","0",".","1">> >>,  \* longitude too large
    << <<"4","1",",","5">>, <<"-","6",",","1">> >>,      \* decimal commas
    << <<"x">>,             <<"9">> >> }                 \* not a number

Modes == {"force_31n", "auto", "fixed", "other"}

\* fixed_zone: None or an int
FixedZones == {None} \cup {<< z >> : z \in (ZoneLo - 1)..(ZoneHi + 1)}

Impls == {"pkg", "root"}

\* the column sets of the input tables: the Id column holds the row number
ColumnSets == {{LatCol, LonCol, IdCol}, {LatCol, IdCol}, {LonCol, IdCol}, {IdCol}}

TextSeqs == UNION {[1..n -> RowTexts] : n \in 0..MaxRows}

FullRow(t, i) == [Lat |-> t[1], Lon |-> t[2], Id |-> i]

\* the table with the columns cols whose rows carry the texts ts
Table(ts, cols) ==
  [cols |-> cols,
   rows |-> [i \in 1..Len(ts) |-> [c \in cols |-> FullRow(ts[i], i)[c]]]]

\* input_epsg: the default of the signature and the other datum the
\* application offers
DefaultInputEpsg == "EPSG:4258"
InputEpsgs == {"EPSG:4258", "EPSG:4326"}

\* the (source CRS, destination CRS) pairs a call can ask a handle for
CrsPairs == InputEpsgs \X {EpsgOf(z) : z \in (ZoneLo - 1)..(ZoneHi + 1)}

(* ------------------------------- state -------------------------------- *)

VARIABLES
  pc,                 \* position of the call, "done" once it has ended
  impl,               \* which convert_dataframe the call runs
  df, mode, fixed_zone, use_decimal_comma, input_epsg,    \* the arguments
  ncalls,             \* calls the process has started, this one included
  lat_s, lon_s,       \* parsed series
  valid,              \* validity mask
  n_valid, n_drop,    \* the counters
  df_out, lat_v, lon_v,
  zones, xs, ys, epsgs, husos, failed, last_error,
  todo,               \* zones the loop over np.unique(zones) has still to visit
  results,            \* the four appended columns, one record per row
  outcome,            \* what the call gave its caller
  handle_gets,        \* transformer handles obtained during the call
  transform_calls,    \* transformer.transform calls made during the call
  cache,              \* CRS pairs whose handle the lru_cache of the package holds
  built               \* per CRS pair, the handles Transformer.from_crs has built

args == << impl, df, mode, fixed_zone, use_decimal_comma, input_epsg, ncalls >>
parsed == << lat_s, lon_s >>
filtered == << valid, n_valid, n_drop, df_out, lat_v, lon_v >>
autos == << zones, xs, ys, epsgs, husos, failed, last_error, todo >>
handles == << handle_gets, transform_calls, cache, built >>
vars == << pc, args, parsed, filtered, autos, results, outcome, handles >>

NoOutcome == [kind |-> "none"]
Raise(exc, what, arg) == [kind |-> "raise", exc |-> exc, what |-> what, arg |-> arg]
Return(out, nv, nd) == [kind |-> "return", out |-> out, n_valid |-> nv, n_drop |-> nd]

Locals0 ==
  /\ lat_s = << >> /\ lon_s = << >> /\ valid = << >>
  /\ n_valid = 0 /\ n_drop = 0
  /\ df_out = << >> /\ lat_v = << >> /\ lon_v = << >>
  /\ zones = << >> /\ xs = << >> /\ ys = << >> /\ epsgs = << >>
  /\ husos = << >> /\ failed = << >> /\ last_error = None /\ todo = << >>
  /\ results = << >>
  /\ handle_gets = 0 /\ transform_calls = 0

\* a caller invokes convert_dataframe(df, "Lat", "Lon", mode, fixed_zone=...,
\* use_decimal_comma=...) of either module, with any of the tables
Init ==
  /\ pc = "start"
  /\ impl \in Impls
  /\ df \in {Table(ts, cs) : ts \in TextSeqs, cs \in ColumnSets}
  /\ mode \in Modes
  /\ fixed_zone \in FixedZones
  /\ (mode # "fixed" => fixed_zone = None)
  /\ use_decimal_comma \in BOOLEAN
  /\ input_epsg = DefaultInputEpsg
  /\ ncalls = 1
  /\ cache = {}
  /\ built = [p \in CrsPairs |-> 0]
  /\ outcome = NoOutcome
  /\ Locals0

\* the call ends by raising
Raises(exc, what, arg) ==
  /\ pc' = "done"
  /\ outcome' = Raise(exc, what, arg)

(* ------------- src/src/etrs89_converter/converter.py ------------------ *)

\* lines 55-58: both column names must be columns of df
CheckColumns ==
  /\ pc = "start" /\ impl = "pkg"
  /\ IF LatCol \notin df.cols
     THEN Raises("ValueError", "column not found", LatCol)
     ELSE IF LonCol \notin df.cols
     THEN Raises("ValueError", "column not found", LonCol)
     ELSE pc' = "parse" /\ UNCHANGED outcome
  /\ UNCHANGED << args, parsed, filtered, autos, results, handles >>

\* lines 60-69: parse the two columns
Parse ==
  /\ pc = "parse" /\ impl = "pkg"
  /\ lat_s' = to_float_series(Column(df.rows, LatCol), use_decimal_comma)
  /\ lon_s' = to_float_series(Column(df.rows, LonCol), use_decimal_comma)
  /\ pc' = "filter"
  /\ UNCHANGED << args, filtered, autos, results, outcome, handles >>

\* mutant: the filter goes on to the mode branches with no valid row
FilterStep_NoStop ==
  LET v == ValidMask(lat_s, lon_s)
      nv == CountTrue(v)
  IN /\ valid' = v
     /\ n_valid' = nv
     /\ n_drop' = Len(df.rows) - nv
     /\ df_out' = Pick(df.rows, v)
     /\ lat_v' = Pick(lat_s, v)
     /\ lon_v' = Pick(lon_s, v)
     /\ pc' = "mode"
     /\ UNCHANGED outcome

\* lines 71-83 (src/converter.py 54-66 is the same text): the validity
\* filter, the counters, the no-valid-rows stop
FilterStep ==
  LET v == ValidMask(lat_s, lon_s)
      nv == CountTrue(v)
  IN /\ valid' = v
     /\ n_valid' = nv
     /\ n_drop' = Len(df.rows) - nv
     /\ IF nv = 0
        THEN /\ Raises("ValueError", "no valid rows", None)
             /\ UNCHANGED << df_out, lat_v, lon_v >>
        ELSE /\ df_out' = Pick(df.rows, v)
             /\ lat_v' = Pick(lat_s, v)
             /\ lon_v' = Pick(lon_s, v)
             /\ pc' = "mode"
             /\ UNCHANGED outcome

Filter ==
  /\ pc = "filter" /\ impl = "pkg"
  /\ FilterStep
  /\ UNCHANGED << args, parsed, autos, results, handles >>

\* mutant: the function is not memoized, every look-up builds a handle
GetTransformer_NoCache(pair, r) ==
  /\ cache' = cache
  /\ built' = IF r = "handle_fails" THEN built
              ELSE [built EXCEPT ![pair] = @ + 1]

\* lines 8-11, _get_transformer under lru_cache(maxsize=None): a pair in the
\* cache gives its handle back without building; another pair is built by
\* Transformer.from_crs and cached, unless building raises (lru_cache keeps
\* no exception)
GetTransformer(pair, r) ==
  IF pair \in cache
  THEN r # "handle_fails" /\ UNCHANGED << cache, built >>
  ELSE IF r = "handle_fails"
  THEN UNCHANGED << cache, built >>
  ELSE /\ cache' = cache \cup {pair}
       /\ built' = [built EXCEPT ![pair] = @ + 1]

\* src/converter.py lines 71-73, 90-92, 109-111: Transformer.from_crs builds
\* a handle at every look-up
FromCrs(pair, r) ==
  /\ cache' = cache
  /\ built' = IF r = "handle_fails" THEN built
              ELSE [built EXCEPT ![pair] = @ + 1]

\* the handle look-up of the running implementation
Lookup(epsg, r) ==
  IF impl = "pkg" THEN GetTransformer(<< input_epsg, epsg >>, r)
  ELSE FromCrs(<< input_epsg, epsg >>, r)

\* one batched look-up and transform of all rows into epsg, written with the
\* constant columns code and huso; a ProjError propagates to the caller
SingleTransform(epsg, huso) ==
  \E r \in TransformOutcomes :
    /\ Lookup(epsg, r)
    /\ handle_gets' = handle_gets + 1
    /\ transform_calls' = IF r = "handle_fails" THEN transform_calls
                          ELSE transform_calls + 1
    /\ IF r = "ok"
       THEN /\ results' = [i \in 1..Len(lon_v) |->
                             [X_ETRS89 |-> Projected("x", epsg, lon_v[i], lat_v[i]),
                              Y_ETRS89 |-> Projected("y", epsg, lon_v[i], lat_v[i]),
                              EPSG_destino |-> epsg,
                              Huso |-> huso]]
            /\ pc' = "assemble"
            /\ UNCHANGED outcome
       ELSE /\ Raises("ProjError", r, epsg)
            /\ UNCHANGED results

\* lines 85-92
Force31n ==
  /\ pc = "mode" /\ impl = "pkg" /\ mode = "force_31n"
  /\ SingleTransform(EPSG25831, ForcedZone)
  /\ UNCHANGED << args, parsed, filtered, autos >>

\* lines 94-101: the zone of every valid row, empty result arrays
AutoStart ==
  /\ pc = "mode" /\ impl = "pkg" /\ mode = "auto"
  /\ zones' = ZonesOf(lon_v)
  /\ xs' = Fill(Len(lon_v), NaN)
  /\ ys' = Fill(Len(lat_v), NaN)
  /\ epsgs' = Fill(Len(lon_v), None)
  /\ husos' = ZonesOf(lon_v)
  /\ failed' = Fill(Len(lon_v), FALSE)
  /\ last_error' = None
  /\ todo' = Unique(ZonesOf(lon_v))
  /\ pc' = "auto"
  /\ UNCHANGED << args, parsed, filtered, results, outcome, handles >>

\* lines 102-114: one pass of the loop over np.unique(zones); a ProjError of
\* the look-up or of the transform marks the rows of that zone as failed
AutoGroup ==
  /\ pc = "auto" /\ impl = "pkg" /\ todo # << >>
  /\ LET zone == Head(todo)
         epsg == EpsgOf(zone)
         mask == [i \in 1..Len(zones) |-> zones[i] = zone]
     IN \E r \in TransformOutcomes :
          /\ Lookup(epsg, r)
          /\ handle_gets' = handle_gets + 1
          /\ transform_calls' = IF r = "handle_fails" THEN transform_calls
                                ELSE transform_calls + 1
          /\ IF r = "ok"
             THEN /\ xs' = [i \in 1..Len(xs) |->
                              IF mask[i] THEN Projected("x", epsg, lon_v[i], lat_v[i])
                              ELSE xs[i]]
                  /\ ys' = [i \in 1..Len(ys) |->
                              IF mask[i] THEN Projected("y", epsg, lon_v[i], lat_v[i])
                              ELSE ys[i]]
                  /\ epsgs' = [i \in 1..Len(epsgs) |->
                                 IF mask[i] THEN epsg ELSE epsgs[i]]
                  /\ UNCHANGED << failed, last_error >>
             ELSE /\ failed' = [i \in 1..Len(failed) |-> mask[i] \/ failed[i]]
                  /\ last_error' = ProjErrorOf(epsg)
                  /\ UNCHANGED << xs, ys, epsgs >>
  /\ todo' = Tail(todo)
  /\ UNCHANGED << pc, args, parsed, filtered, zones, husos, results, outcome >>

\* mutant: the failed rows are not added to n_drop
DropAfterFailure_Forgotten(nd, n_fail) == nd

\* n_drop += n_fail
DropAfterFailure(nd, n_fail) == nd + n_fail

\* n_valid -= n_fail
ValidAfterFailure(nv, n_fail) == nv - n_fail

\* the four result columns as one record per row
Columns(x, y, e, h) ==
  [i \in 1..Len(x) |->
     [X_ETRS89 |-> x[i], Y_ETRS89 |-> y[i], EPSG_destino |-> e[i], Huso |-> h[i]]]

\* lines 115-132: drop the rows of the failed zones and count them, stop when
\* none is left, build the result columns
AutoEnd ==
  /\ pc = "auto" /\ impl = "pkg" /\ todo = << >>
  /\ IF \E i \in 1..Len(failed) : failed[i]
     THEN LET n_fail == CountTrue(failed)
              keep == Not(failed)
          IN /\ df_out' = Pick(df_out, keep)
             /\ xs' = Pick(xs, keep)
             /\ ys' = Pick(ys, keep)
             /\ epsgs' = Pick(epsgs, keep)
             /\ husos' = Pick(husos, keep)
             /\ n_valid' = ValidAfterFailure(n_valid, n_fail)
             /\ n_drop' = DropAfterFailure(n_drop, n_fail)
             /\ IF ValidAfterFailure(n_valid, n_fail) = 0
                THEN /\ Raises("ValueError", "transformation failed for all rows",
                               last_error)
                     /\ UNCHANGED results
                ELSE /\ results' = Columns(Pick(xs, keep), Pick(ys, keep),
                                           Pick(epsgs, keep), Pick(husos, keep))
                     /\ pc' = "assemble"
                     /\ UNCHANGED outcome
     ELSE /\ results' = Columns(xs, ys, epsgs, husos)
          /\ pc' = "assemble"
          /\ UNCHANGED << df_out, xs, ys, epsgs, husos, n_valid, n_drop, outcome >>
  /\ UNCHANGED << args, parsed, valid, lat_v, lon_v, zones, failed, last_error,
                  todo, handles >>

\* lines 134-146
Fixed ==
  /\ pc = "mode" /\ impl = "pkg" /\ mode = "fixed"
  /\ IF fixed_zone = None
     THEN /\ Raises("ValueError", "fixed_zone must be provided", None)
          /\ UNCHANGED << results, handles >>
     ELSE IF fixed_zone[1] \notin {29, 30, 31}
     THEN /\ Raises("ValueError", "fixed_zone must be one of 29, 30, or 31", None)
          /\ UNCHANGED << results, handles >>
     ELSE SingleTransform(EpsgOf(fixed_zone[1]), fixed_zone[1])
  /\ UNCHANGED << args, parsed, filtered, autos >>

\* lines 148-149
UnknownMode ==
  /\ pc = "mode" /\ impl = "pkg" /\ mode \notin {"force_31n", "auto", "fixed"}
  /\ Raises("ValueError", "unknown mode", None)
  /\ UNCHANGED << args, parsed, filtered, autos, results, handles >>

\* @@ of the TLC module: the row with the result columns appended
Concat(rows, res) == [i \in 1..Len(rows) |-> rows[i] @@ res[i]]

\* results["X_ETRS89"].round(d), results["Y_ETRS89"].round(d)
Rounded(res, d) ==
  [i \in 1..Len(res) |->
     [res[i] EXCEPT !.X_ETRS89 = Round(@, d), !.Y_ETRS89 = Round(@, d)]]

\* lines 151-159: round, concatenate, return
Assemble ==
  /\ pc = "assemble" /\ impl = "pkg"
  /\ results' = Rounded(results, RoundDefault)
  /\ outcome' = Return(Concat(df_out, Rounded(results, RoundDefault)),
                       n_valid, n_drop)
  /\ pc' = "done"
  /\ UNCHANGED << args, parsed, filtered, autos, handles >>

(* -------------------------- src/converter.py -------------------------- *)

\* lines 43-52: no column check; df2[col] raises KeyError(col) for a column
\* that is missing, the latitude column being read and parsed first
RootParse ==
  /\ pc = "start" /\ impl = "root"
  /\ IF LatCol \notin df.cols
     THEN /\ Raises("KeyError", "key", LatCol)
          /\ UNCHANGED parsed
     ELSE /\ lat_s' = to_float_series(Column(df.rows, LatCol), use_decimal_comma)
          /\ IF LonCol \notin df.cols
             THEN /\ Raises("KeyError", "key", LonCol)
                  /\ UNCHANGED lon_s
             ELSE /\ lon_s' = to_float_series(Column(df.rows, LonCol),
                                              use_decimal_comma)
                  /\ pc' = "filter"
                  /\ UNCHANGED outcome
  /\ UNCHANGED << args, filtered, autos, results, handles >>

\* lines 54-68
RootFilter ==
  /\ pc = "filter" /\ impl = "root"
  /\ FilterStep
  /\ UNCHANGED << args, parsed, autos, results, handles >>

\* lines 70-78
RootForce31n ==
  /\ pc = "mode" /\ impl = "root" /\ mode = "force_31n"
  /\ SingleTransform(EPSG25831, ForcedZone)
  /\ UNCHANGED << args, parsed, filtered, autos >>

\* lines 81-82: the zones are not clipped here
RootAutoStart ==
  /\ pc = "mode" /\ impl = "root" /\ mode = "auto"
  /\ zones' = [i \in 1..Len(lon_v) |-> RawZone(lon_v[i])]
  /\ xs' = << >> /\ ys' = << >> /\ epsgs' = << >> /\ husos' = << >>
  /\ pc' = "auto"
  /\ UNCHANGED << args, parsed, filtered, failed, last_error, todo, results,
                  outcome, handles >>

\* lines 83-99: one row of the loop; a transformer is built for every row and
\* any exception is swallowed into a NaN pair
RootAutoRow ==
  /\ pc = "auto" /\ impl = "root" /\ Len(xs) < Len(lon_v)
  /\ LET k == Len(xs) + 1
         zone == Clip(zones[k])
         epsg == EpsgOf(zone)
     IN \E r \in TransformOutcomes :
          /\ Lookup(epsg, r)
          /\ handle_gets' = handle_gets + 1
          /\ transform_calls' = IF r = "handle_fails" THEN transform_calls
                                ELSE transform_calls + 1
          /\ xs' = Append(xs, IF r = "ok"
                              THEN Projected("x", epsg, lon_v[k], lat_v[k])
                              ELSE NaN)
          /\ ys' = Append(ys, IF r = "ok"
                              THEN Projected("y", epsg, lon_v[k], lat_v[k])
                              ELSE NaN)
          /\ epsgs' = Append(epsgs, epsg)
          /\ husos' = Append(husos, zone)
  /\ UNCHANGED << pc, args, parsed, filtered, zones, failed, last_error, todo,
                  results, outcome >>

\* lines 100-103
RootAutoEnd ==
  /\ pc = "auto" /\ impl = "root" /\ Len(xs) = Len(lon_v)
  /\ results' = Columns(xs, ys, epsgs, husos)
  /\ pc' = "assemble"
  /\ UNCHANGED << args, parsed, filtered, autos, outcome, handles >>

\* lines 105-116: only a missing fixed_zone is rejected
RootFixed ==
  /\ pc = "mode" /\ impl = "root" /\ mode = "fixed"
  /\ IF fixed_zone = None
     THEN /\ Raises("ValueError", "fixed_zone must be provided", None)
          /\ UNCHANGED << results, handles >>
     ELSE SingleTransform(EpsgOf(fixed_zone[1]), fixed_zone[1])
  /\ UNCHANGED << args, parsed, filtered, autos >>

\* lines 118-119
RootUnknownMode ==
  /\ pc = "mode" /\ impl = "root" /\ mode \notin {"force_31n", "auto", "fixed"}
  /\ Raises("ValueError", "unknown mode", None)
  /\ UNCHANGED << args, parsed, filtered, autos, results, handles >>

\* lines 121-129
RootAssemble ==
  /\ pc = "assemble" /\ impl = "root"
  /\ results' = Rounded(results, RoundDefault)
  /\ outcome' = Return(Concat(df_out, Rounded(results, RoundDefault)),
                       n_valid, n_drop)
  /\ pc' = "done"
  /\ UNCHANGED << args, parsed, filtered, autos, handles >>

(* --------------------------- specification ---------------------------- *)

Next ==
  \/ CheckColumns \/ Parse \/ Filter
  \/ Force31n \/ AutoStart \/ AutoGroup \/ AutoEnd \/ Fixed \/ UnknownMode
  \/ Assemble
  \/ RootParse \/ RootFilter
  \/ RootForce31n \/ RootAutoStart \/ RootAutoRow \/ RootAutoEnd \/ RootFixed
  \/ RootUnknownMode \/ RootAssemble

Spec == Init /\ [][Next]_vars

(* ------------------- several calls in one process --------------------- *)

\* the rows of the tables of a process that calls more than once: one in
\* zone 29, one in zone 31, one that is no number
ProcessRowTexts ==
  { << <<"4","0">>,         <<"-","1","2">> >>,
    << <<"4","0",".","5">>, <<"0">> >>,
    << <<"x">>,             <<"9">> >> }

\* the arguments of the calls of such a process
ProcessCalls ==
  { [df |-> Table(ts, {LatCol, LonCol, IdCol}), mode |-> m, fixed_zone |-> fz,
     input_epsg |-> e] :
      ts \in UNION {[1..n -> ProcessRowTexts] : n \in 0..MaxRows},
      m \in Modes,
      fz \in {None, << ZoneLo - 1 >>, << ZoneHi >>},
      e \in InputEpsgs }

\* the first call of a process: nothing is cached yet
InitProcess ==
  /\ pc = "start"
  /\ impl \in Impls
  /\ \E c \in ProcessCalls :
       /\ (c.mode # "fixed" => c.fixed_zone = None)
       /\ df = c.df /\ mode = c.mode /\ fixed_zone = c.fixed_zone
       /\ input_epsg = c.input_epsg
  /\ use_decimal_comma = FALSE
  /\ ncalls = 1
  /\ cache = {}
  /\ built = [p \in CrsPairs |-> 0]
  /\ outcome = NoOutcome
  /\ Locals0

\* the process calls convert_dataframe of the same module again, once the
\* call before has ended: the locals are fresh, the lru_cache and the
\* handles built so far stay
NextCall ==
  /\ pc = "done" /\ ncalls < MaxCalls
  /\ \E c \in ProcessCalls :
       /\ (c.mode # "fixed" => c.fixed_zone = None)
       /\ df' = c.df /\ mode' = c.mode /\ fixed_zone' = c.fixed_zone
       /\ input_epsg' = c.input_epsg
  /\ ncalls' = ncalls + 1
  /\ pc' = "start"
  /\ outcome' = NoOutcome
  /\ lat_s' = << >> /\ lon_s' = << >> /\ valid' = << >>
  /\ n_valid' = 0 /\ n_drop' = 0
  /\ df_out' = << >> /\ lat_v' = << >> /\ lon_v' = << >>
  /\ zones' = << >> /\ xs' = << >> /\ ys' = << >> /\ epsgs' = << >>
  /\ husos' = << >> /\ failed' = << >> /\ last_error' = None /\ todo' = << >>
  /\ results' = << >>
  /\ handle_gets' = 0 /\ transform_calls' = 0
  /\ UNCHANGED << impl, use_decimal_comma, cache, built >>

NextProcess == Next \/ NextCall

SpecProcess == InitProcess /\ [][NextProcess]_vars

(* ------------------- vocabulary of the properties --------------------- *)

Done == pc = "done"
Returned == outcome.kind = "return"
Raised == outcome.kind = "raise"
RaisedWhat(w) == Raised /\ outcome.what = w
TotalRows == Len(df.rows)
ColumnsPresent == LatCol \in df.cols /\ LonCol \in df.cols

\* the validity filter has run
Filtered == Len(valid) = TotalRows /\ pc # "start" /\ pc # "parse" /\ pc # "filter"

\* a parsed value v lies in [lo, hi] degrees, written without the model's
\* operators; never true of NaN
WithinDegrees(v, lo, hi) ==
  /\ Len(v) = 1
  /\ ~(v[1] < lo * Scale)
  /\ ~(v[1] > hi * Scale)

\* row i of the input parses to an in-range coordinate pair
RowInRange(i) ==
  /\ WithinDegrees(lat_s[i], -90, 90)
  /\ WithinDegrees(lon_s[i], -180, 180)

\* the input row numbers that passed the validity filter, in order
ValidIds == Pick([i \in 1..TotalRows |-> i], valid)

\* the input row numbers whose transform call failed in auto mode: the rows
\* the package marked failed, the rows the root module gave a NaN pair
FailedIds ==
  IF mode # "auto" THEN {}
  ELSE IF impl = "pkg"
  THEN {ValidIds[k] : k \in {j \in 1..Len(failed) : failed[j]}}
  ELSE {ValidIds[k] : k \in {j \in 1..Len(xs) : xs[j] = NaN}}

\* the zones present among the valid rows, and those whose call failed
RowZone(i) == Clip(RawZone(lon_s[i]))
ZonesPresent == {RowZone(ValidIds[k]) : k \in 1..Len(ValidIds)}
ZonesFailed == {RowZone(i) : i \in FailedIds}

\* floor((lon + 180) / 6) + 1 clamped into 29..31, from the definition of
\* floor: the k with 6k <= lon + 180 < 6(k + 1)
ClampedZone(lonv) ==
  LET k == CHOOSE j \in 0..60 :
             /\ 6 * Scale * j <= lonv + 180 * Scale
             /\ lonv + 180 * Scale < 6 * Scale * (j + 1)
      z == k + 1
  IN IF z < 29 THEN 29 ELSE IF z > 31 THEN 31 ELSE z

\* the longitude of an output row, read back from its own longitude cell
OutLon(row) == ToFloatCell(row[LonCol], use_decimal_comma)[1]

(* ------------------------------ claims -------------------------------- *)

\* C1: whenever convert returns a result, the returned counters add up to
\* the number of input rows: n_valid + n_drop = len(df), in every mode and
\* for every pattern of transform failures.
C1_CountersAddUp ==
  Returned => outcome.n_valid + outcome.n_drop = TotalRows

\* C1 witness: the package returns in auto mode after a zone group failed,
\* one row converted and one dropped.
C1_Witness ==
  /\ Returned /\ impl = "pkg" /\ mode = "auto"
  /\ FailedIds # {}
  /\ outcome.n_valid = 1 /\ outcome.n_drop = 1 /\ TotalRows = 2

\* C2: whenever convert returns, the output holds exactly the input rows
\* that passed the validity filter and whose transform succeeded, in input
\* order, one output row each, as many as n_valid, none with a NaN X or Y.
C2_OutputIsSurvivors ==
  Returned =>
    LET out == outcome.out
        keep == [i \in 1..TotalRows |-> valid[i] /\ i \notin FailedIds]
    IN /\ Len(out) = outcome.n_valid
       /\ [i \in 1..Len(out) |-> [c \in df.cols |-> out[i][c]]]
            = Pick(df.rows, keep)
       /\ \A i \in 1..Len(out) :
            out[i].X_ETRS89 # NaN /\ out[i].Y_ETRS89 # NaN

\* C2 restricted to the package implementation (it holds there).
C2_Package == impl = "pkg" => C2_OutputIsSurvivors

\* C3: a row passes the validity filter iff its parsed latitude is in
\* [-90, 90] and its parsed longitude in [-180, 180], bounds included, NaN
\* never passing; right after the filter n_valid is the number of passing
\* rows and n_drop the number of the others.
C3_ValidityFilter ==
  Filtered =>
    /\ \A i \in 1..TotalRows : valid[i] <=> RowInRange(i)
    /\ (pc = "mode" \/ RaisedWhat("no valid rows")) =>
         /\ n_valid = Cardinality({i \in 1..TotalRows : RowInRange(i)})
         /\ n_drop = TotalRows - n_valid

\* C3 witness: the filter has kept a row lying on the bounds (latitude 90,
\* longitude -180) and has dropped a row with a NaN latitude.
C3_Witness ==
  /\ pc = "mode"
  /\ \E i \in 1..TotalRows :
       valid[i] /\ lat_s[i] = Num(90 * Scale) /\ lon_s[i] = Num(-180 * Scale)
  /\ \E i \in 1..TotalRows : ~valid[i] /\ lat_s[i] = NaN
  /\ n_valid = 1 /\ n_drop = 1

\* C4: in auto mode every output row carries the zone
\* clamp(floor((lon + 180) / 6) + 1, 29, 31) of its own longitude (-12, -6
\* and 0 give 29, 30 and 31; -180 gives 29 and 180 gives 31) and the CRS
\* code EPSG:258 followed by that zone. The zone computation is compared
\* with the formula for every longitude of [-180, 180] in steps of 1/Scale
\* degree right after the zones of a one-row call have been computed.
C4_AutoZone ==
  /\ (pc = "auto" /\ TotalRows = 1 /\ lon_v = << Num(0) >>
        /\ ~use_decimal_comma /\ (todo # << >> \/ xs = << >>)) =>
       \A l \in (-180 * Scale)..(180 * Scale) :
         Clip(RawZone(Num(l))) = ClampedZone(l)
  /\ (Returned /\ mode = "auto") =>
    \A i \in 1..Len(outcome.out) :
      LET row == outcome.out[i]
          lonv == OutLon(row)
      IN /\ row.Huso = ClampedZone(lonv)
         /\ (lonv = -12 * Scale => row.Huso = 29)
         /\ (lonv = -6 * Scale => row.Huso = 30)
         /\ (lonv = 0 => row.Huso = 31)
         /\ (lonv < -12 * Scale => row.Huso = 29)
         /\ (lonv > 0 => row.Huso = 31)
         /\ row.EPSG_destino = << "EPSG:258", row.Huso \div 10, row.Huso % 10 >>

\* C4 witness: an auto-mode output with the boundary longitude -6 in zone 30
\* and the clamped longitude 180 in zone 31.
C4_Witness ==
  /\ Returned /\ mode = "auto"
  /\ \E i \in 1..Len(outcome.out) :
       OutLon(outcome.out[i]) = -6 * Scale /\ outcome.out[i].Huso = 30
  /\ \E i \in 1..Len(outcome.out) :
       OutLon(outcome.out[i]) = 180 * Scale /\ outcome.out[i].Huso = 31

\* C5: in force_31n mode every output row has zone 31 and CRS code
\* EPSG:25831, whatever its longitude.
C5_Force31n ==
  (Returned /\ mode = "force_31n") =>
    \A i \in 1..Len(outcome.out) :
      /\ outcome.out[i].Huso = 31
      /\ outcome.out[i].EPSG_destino = << "EPSG:258", 3, 1 >>

\* C5 witness: a force_31n output with a row whose natural zone is 29.
C5_Witness ==
  /\ Returned /\ mode = "force_31n"
  /\ \E i \in 1..Len(outcome.out) :
       /\ ClampedZone(OutLon(outcome.out[i])) = 29
       /\ outcome.out[i].Huso = 31

\* C6: in fixed mode a call whose fixedZone is absent or not one of 29, 30,
\* 31 ends in a ValueError (the invalid-parameter error), returns no output
\* and attempts no transform; a call that returns has a fixedZone among 29,
\* 30, 31 and every output row carries that zone and EPSG:258 followed by it.
C6_FixedZoneChecked ==
  (Done /\ mode = "fixed") =>
    /\ (fixed_zone = None \/ fixed_zone[1] \notin {29, 30, 31}) =>
         /\ Raised
         /\ outcome.exc = "ValueError"
         /\ transform_calls = 0
    /\ Returned =>
         /\ fixed_zone # None
         /\ fixed_zone[1] \in {29, 30, 31}
         /\ \A i \in 1..Len(outcome.out) :
              /\ outcome.out[i].Huso = fixed_zone[1]
              /\ outcome.out[i].EPSG_destino
                   = << "EPSG:258", fixed_zone[1] \div 10, fixed_zone[1] % 10 >>

\* C6 restricted to the package implementation (it holds there).
C6_Package == impl = "pkg" => C6_FixedZoneChecked

\* C6 read with the kind of the error: the error raised for a bad fixedZone
\* is the one about fixed_zone. The package raises the invalid-column or the
\* no-valid-rows ValueError first when one of those applies.
C6_ErrorIsAboutFixedZone ==
  (Done /\ mode = "fixed" /\ impl = "pkg"
     /\ (fixed_zone = None \/ fixed_zone[1] \notin {29, 30, 31})) =>
    \/ RaisedWhat("fixed_zone must be provided")
    \/ RaisedWhat("fixed_zone must be one of 29, 30, or 31")

\* C7: when the latitude or the longitude column is missing from the table,
\* convert raises a ValueError naming a missing column, in every mode and
\* for every table, before anything was parsed, filtered or transformed.
C7_MissingColumn ==
  (Done /\ ~ColumnsPresent) =>
    /\ Raised
    /\ outcome.exc = "ValueError"
    /\ outcome.what = "column not found"
    /\ outcome.arg \in ({LatCol, LonCol} \ df.cols)
    /\ lat_s = << >> /\ lon_s = << >> /\ valid = << >>
    /\ handle_gets = 0 /\ transform_calls = 0

\* C7 restricted to the package implementation (it holds there).
C7_Package == impl = "pkg" => C7_MissingColumn

\* the number a cell of RowTexts stands for, in tenths of a degree, written
\* out by hand; NaN for the texts that are no number
TenthsOf(cell, comma) ==
  CASE cell = <<"4","0">> -> Num(400)
    [] cell = <<"-","1","2">> -> Num(-120)
    [] cell = <<"-","6">> -> Num(-60)
    [] cell = <<"4","0",".","5">> -> Num(405)
    [] cell = <<"0">> -> Num(0)
    [] cell = <<"9">> -> Num(90)
    [] cell = <<"9","0">> -> Num(900)
    [] cell = <<"-","9","0">> -> Num(-900)
    [] cell = <<"1","8","0">> -> Num(1800)
    [] cell = <<"-","1","8","0">> -> Num(-1800)
    [] cell = <<"9","0",".","1">> -> Num(901)
    [] cell = <<"-","9","0",".","1">> -> Num(-901)
    [] cell = <<"1","8","0",".","1">> -> Num(1801)
    [] cell = <<"-","1","8","0",".","1">> -> Num(-1801)
    [] cell = <<"4","1",",","5">> -> IF comma THEN Num(415) ELSE NaN
    [] cell = <<"-","6",",","1">> -> IF comma THEN Num(-61) ELSE NaN
    [] cell = <<"x">> -> NaN

ExpectedValue(cell, comma) ==
  LET t == TenthsOf(cell, comma)
  IN IF t = NaN THEN NaN ELSE Num(t[1] * (Scale \div 10))

HasComma(cell) == \E k \in 1..Len(cell) : cell[k] = ","

\* every latitude and longitude cell of a non-empty table uses a decimal comma
AllCommaCells ==
  /\ ColumnsPresent /\ TotalRows > 0
  /\ \A i \in 1..TotalRows :
       HasComma(df.rows[i][LatCol]) /\ HasComma(df.rows[i][LonCol])

\* C8: the parser gives every cell a value and never stops the call: a text
\* that is no number becomes NaN and its row is dropped by the filter; a
\* decimal-comma text becomes its number when use_decimal_comma is set and
\* NaN when it is not, so a table of (in-range) decimal-comma cells does not
\* end in no-valid-rows with the flag and does end in it without.
C8_Parser ==
  /\ (ColumnsPresent /\ pc # "start" /\ pc # "parse") =>
       /\ Len(lat_s) = TotalRows /\ Len(lon_s) = TotalRows
       /\ \A i \in 1..TotalRows :
            /\ lat_s[i] = ExpectedValue(df.rows[i][LatCol], use_decimal_comma)
            /\ lon_s[i] = ExpectedValue(df.rows[i][LonCol], use_decimal_comma)
  /\ Filtered =>
       /\ \A i \in 1..TotalRows :
            (lat_s[i] = NaN \/ lon_s[i] = NaN) => ~valid[i]
       /\ pc = "mode" =>
            n_drop >= Cardinality({i \in 1..TotalRows :
                                     lat_s[i] = NaN \/ lon_s[i] = NaN})
  /\ (Done /\ AllCommaCells) =>
       IF use_decimal_comma
       THEN /\ ~RaisedWhat("no valid rows")
            /\ \A i \in 1..TotalRows : valid[i]
       ELSE RaisedWhat("no valid rows")

\* C8 witness: with the flag set the filter has kept a decimal-comma row
\* parsed to (41.5, -6.1) and has dropped a row whose latitude is no number.
C8_Witness ==
  /\ pc = "mode" /\ use_decimal_comma
  /\ \E i \in 1..TotalRows :
       /\ df.rows[i][LatCol] = <<"4","1",",","5">>
       /\ lat_s[i] = Num(415 * (Scale \div 10))
       /\ lon_s[i] = Num(-61 * (Scale \div 10))
       /\ valid[i]
  /\ \E i \in 1..TotalRows :
       df.rows[i][LatCol] = <<"x">> /\ lat_s[i] = NaN /\ ~valid[i]
  /\ n_drop = 1

\* C9: in auto mode, when the transform of some but not all zone groups
\* failed, convert returns; the output holds the valid rows of the groups
\* that succeeded and no row of a failed group; relative to the handles after
\* the filter n_valid went down and n_drop up by the number of failed rows.
C9_PartialFailure ==
  (Done /\ mode = "auto" /\ ColumnsPresent /\ Filtered
     /\ ZonesFailed # {} /\ ZonesFailed # ZonesPresent) =>
    LET nFiltered == Cardinality({i \in 1..TotalRows : valid[i]})
        nFailed == Cardinality(FailedIds)
        keep == [i \in 1..TotalRows |-> valid[i] /\ RowZone(i) \notin ZonesFailed]
    IN /\ Returned
       /\ [i \in 1..Len(outcome.out) |-> outcome.out[i][IdCol]]
            = Pick([i \in 1..TotalRows |-> i], keep)
       /\ outcome.n_valid = nFiltered - nFailed
       /\ outcome.n_drop = (TotalRows - nFiltered) + nFailed

\* C9 restricted to the package implementation (it holds there).
C9_Package == impl = "pkg" => C9_PartialFailure

\* the call ended in an error that stems from transform failures
FailedOnTransform ==
  /\ Raised
  /\ \/ outcome.what = "transformation failed for all rows"
     \/ outcome.exc = "ProjError"

\* the zone the loop over the zone groups visits last
LastZone == CHOOSE z \in ZonesPresent : \A y \in ZonesPresent : y <= z

\* C10: in auto mode convert fails because of transform failures iff the
\* transform of every zone group present among the valid rows failed; it
\* then raises 'transformation failed for all rows' with the projection
\* error of the zone group attempted last, and returns nothing.
C10_AllGroupsFail ==
  (Done /\ mode = "auto" /\ ColumnsPresent /\ Filtered /\ ZonesPresent # {}) =>
    /\ FailedOnTransform <=> ZonesFailed = ZonesPresent
    /\ ZonesFailed = ZonesPresent =>
         /\ RaisedWhat("transformation failed for all rows")
         /\ outcome.exc = "ValueError"
         /\ outcome.arg = << "ProjError",
                             << "EPSG:258", LastZone \div 10, LastZone % 10 >> >>

\* C10 restricted to the package implementation (it holds there).
C10_Package == impl = "pkg" => C10_AllGroupsFail

\* no row of the table stands for an in-range coordinate pair, read from the
\* cell texts with the hand-written values
NoRowPasses ==
  /\ ColumnsPresent
  /\ \A i \in 1..TotalRows :
       ~ /\ WithinDegrees(ExpectedValue(df.rows[i][LatCol], use_decimal_comma),
                          -90, 90)
         /\ WithinDegrees(ExpectedValue(df.rows[i][LonCol], use_decimal_comma),
                          -180, 180)

\* C11: when no row passes the validity filter, the call ends in the
\* no-valid-rows error and returns nothing, and at no point of the call is a
\* transform handle obtained or a transform call made, whatever the mode
\* (the mode branches are never entered).
C11_NoValidRowsStop ==
  NoRowPasses =>
    /\ handle_gets = 0 /\ transform_calls = 0
    /\ pc \in {"start", "parse", "filter", "done"}
    /\ Done => (RaisedWhat("no valid rows") /\ outcome.exc = "ValueError")

\* C11 witness: a fixed-mode call on a two-row table without a valid row has
\* ended in the no-valid-rows error, the filter having rejected both rows.
C11_Witness ==
  /\ Done /\ NoRowPasses /\ TotalRows = 2 /\ mode = "fixed"
  /\ RaisedWhat("no valid rows")
  /\ valid = << FALSE, FALSE >> /\ n_drop = 2
  /\ handle_gets = 0 /\ transform_calls = 0

\* the distinct destination CRSs of the call: the zones present among the
\* valid rows in auto mode, one otherwise
DistinctDest == IF mode = "auto" THEN Cardinality(ZonesPresent) ELSE 1

\* C12, across calls: over all calls of a process Transformer.from_crs has
\* built at most one handle for each (source CRS, destination CRS) pair.
C12_BuiltOnce == \A p \in CrsPairs : built[p] <= 1

\* C12, within a call: the handle look-ups are one per distinct destination
\* CRS, never more, and a transform call follows each look-up that gave a
\* handle: a call that returns has looked up exactly one handle per distinct
\* destination CRS and, when no transform failed, has made as many transform
\* calls.
C12_OnePerCrs ==
  /\ transform_calls <= handle_gets
  /\ (Done /\ ~Filtered) => handle_gets = 0
  /\ (Done /\ Filtered) => handle_gets <= DistinctDest
  /\ Returned =>
       /\ handle_gets = DistinctDest
       /\ (FailedIds = {} => transform_calls = DistinctDest)

\* C12: a transform handle is built at most once per (source CRS, destination
\* CRS) pair over the calls of a process and reused afterwards, and a call
\* makes one handle look-up and one transform call per distinct destination
\* CRS, not one per row.
C12_HandlesReused == C12_BuiltOnce /\ C12_OnePerCrs

\* C12 restricted to the package implementation (it holds there); in it the
\* cache holds exactly the pairs whose handle was built.
C12_Package ==
  impl = "pkg" =>
    /\ C12_HandlesReused
    /\ cache = {p \in CrsPairs : built[p] = 1}

\* C12, package: a later call of the process has looked up, in auto mode, the
\* handles of two zones that an earlier call had built, and has built none.
C12_PackageReuse ==
  /\ impl = "pkg" /\ ncalls = 2 /\ Returned /\ mode = "auto"
  /\ handle_gets = 2 /\ transform_calls = 2
  /\ Cardinality(cache) = 2
  /\ \A p \in cache : built[p] = 1

====
